---- MODULE Spec2Model ----
(***************************************************************************)
(* The backend store of lunar-trader-hub (tables, row-level policies and   *)
(* the registration trigger of the SQL migrations) together with the       *)
(* client handlers that read and write it (Dashboard, MT5AccountForm,      *)
(* Admin).                                                                 *)
(***************************************************************************)
EXTENDS Integers, FiniteSets, Sequences, TLC

\* ------------------------------------------------------------------ bounds
MaxUsers == 2
MaxAccounts == 1
MaxAmount == 1
MaxSettings == 2
MaxInflight == 2

\* --------------------------------------------------------------- constants
\* auth.uid() of an unauthenticated caller is NULL; 0 stands for it.
Anon == 0
Identities == 1..MaxUsers
Callers == Identities \cup {Anon}
\* CREATE TYPE public.app_role AS ENUM ('admin', 'user')
app_role == {"admin", "user"}
\* SQL NULL for a text value (an absent key of raw_user_meta_data).
Null == "<NULL>"
\* registration metadata: each key absent or present
MetaNames == {Null, "Jane"}
MetaHandles == {Null, "@jane"}
\* values a profile column can be set to by an update
ProfileNames == {"", "Jane"}
ProfileHandles == {"", "@jane"}
Amounts == 0..MaxAmount
\* PostgREST / Postgres outcomes of a request
Ok == "ok"
RlsError == "42501"
FkError == "23503"
UniqueError == "23505"
TxError == "XX000"

VARIABLES
    users,          \* auth.users: the identities that exist
    profiles,       \* public.profiles
    user_roles,     \* public.user_roles
    mt5_accounts,   \* public.mt5_accounts
    admin_settings, \* public.admin_settings
    resp,           \* the response the last request returned to its caller
    dash,           \* state of a Dashboard screen
    adm,            \* state of an Admin screen
    net,            \* the requests of Admin screens in flight, in the order sent
    auth,           \* state of the Auth screen and of the navigation bar
    localStorage    \* the keys the browser's local storage holds

store == <<users, profiles, user_roles, mt5_accounts, admin_settings>>
screens == <<dash, adm>>
browser == <<auth, localStorage>>
vars == <<users, profiles, user_roles, mt5_accounts, admin_settings, resp, dash, adm, net,
          auth, localStorage>>

\* ------------------------------------------------------------ policy layer
\* has_role without the role test: any role row of the identity counts
has_role_any(_user_id, _role) ==
    \E r \in user_roles : r.user_id = _user_id

\* has_role without the identity test: any identity's row of that role counts
has_role_anyone(_user_id, _role) ==
    \E r \in user_roles : r.role = _role

\* has_role(_user_id, _role): EXISTS over user_roles
has_role(_user_id, _role) ==
    \E r \in user_roles : r.user_id = _user_id /\ r.role = _role

\* The CREATE POLICY statements.  expr names the policy's expression:
\*   "owner"  auth.uid() = user_id
\*   "admin"  public.has_role(auth.uid(), 'admin')
\*   "true"   true
\* A policy with only USING uses it as its WITH CHECK too; the INSERT
\* policies have only WITH CHECK.  One expression per policy covers both.
PoliciesUsersSeeAccounts ==
    { [name |-> "Users can view their own profile", table |-> "profiles", cmd |-> "SELECT", expr |-> "owner"],
      [name |-> "Users can insert their own profile", table |-> "profiles", cmd |-> "INSERT", expr |-> "owner"],
      [name |-> "Users can update their own profile", table |-> "profiles", cmd |-> "UPDATE", expr |-> "owner"],
      [name |-> "Admins can view all profiles", table |-> "profiles", cmd |-> "ALL", expr |-> "admin"],
      [name |-> "Admins can manage all MT5 accounts", table |-> "mt5_accounts", cmd |-> "ALL", expr |-> "admin"],
      [name |-> "Users can insert their own MT5 account", table |-> "mt5_accounts", cmd |-> "INSERT", expr |-> "owner"],
      [name |-> "Anyone can view MT5 accounts", table |-> "mt5_accounts", cmd |-> "SELECT", expr |-> "true"],
      [name |-> "Admins can manage user roles", table |-> "user_roles", cmd |-> "ALL", expr |-> "admin"],
      [name |-> "Admins can manage settings", table |-> "admin_settings", cmd |-> "ALL", expr |-> "admin"],
      [name |-> "Everyone can view admin settings", table |-> "admin_settings", cmd |-> "SELECT", expr |-> "true"] }

\* the policies without "Everyone can view admin settings"
PoliciesSettingsAdminOnly ==
    { [name |-> "Users can view their own profile", table |-> "profiles", cmd |-> "SELECT", expr |-> "owner"],
      [name |-> "Users can insert their own profile", table |-> "profiles", cmd |-> "INSERT", expr |-> "owner"],
      [name |-> "Users can update their own profile", table |-> "profiles", cmd |-> "UPDATE", expr |-> "owner"],
      [name |-> "Admins can view all profiles", table |-> "profiles", cmd |-> "ALL", expr |-> "admin"],
      [name |-> "Admins can manage all MT5 accounts", table |-> "mt5_accounts", cmd |-> "ALL", expr |-> "admin"],
      [name |-> "Users can insert their own MT5 account", table |-> "mt5_accounts", cmd |-> "INSERT", expr |-> "owner"],
      [name |-> "Admins can manage user roles", table |-> "user_roles", cmd |-> "ALL", expr |-> "admin"],
      [name |-> "Admins can manage settings", table |-> "admin_settings", cmd |-> "ALL", expr |-> "admin"] }

Policies ==
    { [name |-> "Users can view their own profile", table |-> "profiles", cmd |-> "SELECT", expr |-> "owner"],
      [name |-> "Users can insert their own profile", table |-> "profiles", cmd |-> "INSERT", expr |-> "owner"],
      [name |-> "Users can update their own profile", table |-> "profiles", cmd |-> "UPDATE", expr |-> "owner"],
      [name |-> "Admins can view all profiles", table |-> "profiles", cmd |-> "ALL", expr |-> "admin"],
      [name |-> "Admins can manage all MT5 accounts", table |-> "mt5_accounts", cmd |-> "ALL", expr |-> "admin"],
      [name |-> "Users can insert their own MT5 account", table |-> "mt5_accounts", cmd |-> "INSERT", expr |-> "owner"],
      [name |-> "Admins can manage user roles", table |-> "user_roles", cmd |-> "ALL", expr |-> "admin"],
      [name |-> "Admins can manage settings", table |-> "admin_settings", cmd |-> "ALL", expr |-> "admin"],
      [name |-> "Everyone can view admin settings", table |-> "admin_settings", cmd |-> "SELECT", expr |-> "true"] }

\* the owner expression testing only that the caller is signed in
PolicyExprSignedIn(expr, caller, row) ==
    CASE expr = "owner" -> caller # Anon
      [] expr = "admin" -> \E r \in user_roles : r.user_id = caller /\ r.role = "admin"
      [] expr = "true"  -> TRUE

\* the value of a policy expression for a caller and a row (NULL = x is not true)
PolicyExpr(expr, caller, row) ==
    CASE expr = "owner" -> caller # Anon /\ caller = row.user_id
      [] expr = "admin" -> has_role(caller, "admin")
      [] expr = "true"  -> TRUE

\* every policy of the table taken as FOR ALL
ApplicableAnyCmd(table, cmd) ==
    { p \in Policies : p.table = table }

\* permissive policies are OR-ed: a row passes if one applicable policy holds
Applicable(table, cmd) ==
    { p \in Policies : p.table = table /\ p.cmd \in {cmd, "ALL"} }

\* the applicable policies AND-ed, as restrictive policies are
AllowedByAll(table, cmd, caller, row) ==
    /\ Applicable(table, cmd) # {}
    /\ \A p \in Applicable(table, cmd) : PolicyExpr(p.expr, caller, row)

Allowed(table, cmd, caller, row) ==
    \E p \in Applicable(table, cmd) : PolicyExpr(p.expr, caller, row)

\* row-level security not applied to SELECT: every row comes back
VisibleAll(table, rows, caller) == rows

\* rows of a table a SELECT by caller returns: the others are filtered out
Visible(table, rows, caller) ==
    { r \in rows : Allowed(table, "SELECT", caller, r) }

\* row-level security not applied to UPDATE and DELETE: every named row
TouchableAny(table, cmd, rows, caller) == rows

\* rows an UPDATE or DELETE with a WHERE clause can touch: visible and
\* passing the command's own USING
Touchable(table, cmd, rows, caller) ==
    { r \in Visible(table, rows, caller) : Allowed(table, cmd, caller, r) }

\* ------------------------------------------------------------------ helpers
Coalesce(x, d) == IF x = Null THEN d ELSE x

IsAdmin(u) == has_role(u, "admin")

\* a caller of the API: an existing identity or nobody
ApiCallers == users \cup {Anon}

\* the last request and what it returned: status, the rows of a select, the
\* number of rows a write changed; arg is the identity or row id the request
\* named, field the column an update named, and denied tells that a policy
\* withheld or refused a row the request named
Response(op, table, caller, status, rows, n, denied, arg) ==
    [op |-> op, table |-> table, caller |-> caller, status |-> status,
     rows |-> rows, n |-> n, denied |-> denied, arg |-> arg, field |-> "none"]

NoResponse == Response("none", "none", Anon, Ok, {}, 0, FALSE, 0)

\* ------------------------------------------------------------------ initial
\* the state the migration leaves: empty tables, one default settings row
DefaultSettings ==
    [id |-> 1, fbs_partner_link |-> "https://fbs.com/partner-link",
     usdt_wallet_address |-> "TBD_USDT_ADDRESS",
     telegram_bot_username |-> "your_telegram_bot"]

\* useState initial values of Dashboard and of Admin; user is the session's
\* identity (useAuth), Anon while nobody has opened the screen
NoDashboard ==
    [user |-> Anon, loading |-> TRUE, profile |-> {}, mt5Accounts |-> {},
     adminSettings |-> {}, toast |-> "none"]

NoAdmin ==
    [user |-> Anon, loading |-> TRUE, users |-> {}, mt5Accounts |-> <<>>,
     adminSettings |-> {}, toast |-> "none"]

\* useState initial values of Auth; handler is the handler that ran last,
\* calls the requests it issued, each with the session artifacts local
\* storage held when it was issued, and removed the keys it removed from
\* local storage
NoAuth ==
    [handler |-> "none", isLoading |-> FALSE, toast |-> "none", calls |-> <<>>,
     removed |-> {}]

Init ==
    /\ users = {}
    /\ profiles = {}
    /\ user_roles = {}
    /\ mt5_accounts = {}
    /\ admin_settings = {DefaultSettings}
    /\ resp = NoResponse
    /\ dash = NoDashboard
    /\ adm = NoAdmin
    /\ net = <<>>
    /\ auth = NoAuth
    /\ localStorage = {}

\* ------------------------------------------------------------ registration
Faults == {"none", "profiles", "user_roles"}

\* handle_new_user without its second insert: no default role
handle_new_user_no_role(new, fault) ==
    LET p == [user_id |-> new.id,
              full_name |-> IF new.raw_user_meta_data.full_name = Null THEN ""
                            ELSE new.raw_user_meta_data.full_name,
              telegram_handle |-> IF new.raw_user_meta_data.telegram_handle = Null THEN ""
                                  ELSE new.raw_user_meta_data.telegram_handle]
        pRaises == fault = "profiles" \/ \E q \in profiles : q.user_id = new.id
    IN  IF pRaises
        THEN [raised |-> TRUE, profiles |-> profiles, user_roles |-> user_roles]
        ELSE [raised |-> FALSE, profiles |-> profiles \cup {p}, user_roles |-> user_roles]

\* handle_new_user without COALESCE: an absent key is stored as NULL
handle_new_user_no_coalesce(new, fault) ==
    LET p == [user_id |-> new.id,
              full_name |-> new.raw_user_meta_data.full_name,
              telegram_handle |-> new.raw_user_meta_data.telegram_handle]
        r == [user_id |-> new.id, role |-> "user"]
        pRaises == fault = "profiles" \/ \E q \in profiles : q.user_id = new.id
        rRaises == fault = "user_roles" \/ r \in user_roles
    IN  IF pRaises \/ rRaises
        THEN [raised |-> TRUE, profiles |-> profiles, user_roles |-> user_roles]
        ELSE [raised |-> FALSE, profiles |-> profiles \cup {p},
              user_roles |-> user_roles \cup {r}]

\* handle_new_user(): the profile insert, then the role insert.  An insert
\* raises when the store fails it (fault) or a UNIQUE constraint rejects it;
\* the function has no exception handler, so the first raise ends it.
handle_new_user(new, fault) ==
    LET p == [user_id |-> new.id,
              full_name |-> Coalesce(new.raw_user_meta_data.full_name, ""),
              telegram_handle |-> Coalesce(new.raw_user_meta_data.telegram_handle, "")]
        r == [user_id |-> new.id, role |-> "user"]
        pRaises == fault = "profiles" \/ \E q \in profiles : q.user_id = new.id
        rRaises == fault = "user_roles" \/ r \in user_roles
    IN  IF pRaises
        THEN [raised |-> TRUE, profiles |-> profiles, user_roles |-> user_roles]
        ELSE IF rRaises
        THEN [raised |-> TRUE, profiles |-> profiles \cup {p}, user_roles |-> user_roles]
        ELSE [raised |-> FALSE, profiles |-> profiles \cup {p},
              user_roles |-> user_roles \cup {r}]

\* on_auth_user_created swallowing the trigger's exception: what is left
\* when the identity insert is kept although the trigger raised
on_auth_user_created_swallow(u, meta, fault) ==
    LET t == handle_new_user([id |-> u, raw_user_meta_data |-> meta], fault)
    IN  [status |-> Ok, users |-> users \cup {u},
         profiles |-> t.profiles, user_roles |-> t.user_roles]

\* INSERT INTO auth.users with the AFTER INSERT ... FOR EACH ROW trigger: the
\* trigger runs in the statement's transaction, a raise rolls all of it back
on_auth_user_created(u, meta, fault) ==
    LET t == handle_new_user([id |-> u, raw_user_meta_data |-> meta], fault)
    IN  IF t.raised
        THEN [status |-> TxError, users |-> users,
              profiles |-> profiles, user_roles |-> user_roles]
        ELSE [status |-> Ok, users |-> users \cup {u},
              profiles |-> t.profiles, user_roles |-> t.user_roles]

\* sign-up of a new identity u with registration metadata meta
Register(u, meta, fault) ==
    /\ u \notin users
    /\ LET o == on_auth_user_created(u, meta, fault)
       IN  /\ users' = o.users
           /\ profiles' = o.profiles
           /\ user_roles' = o.user_roles
           /\ resp' = Response("signup", "auth.users", Anon, o.status, {}, 0, FALSE, u)
    /\ UNCHANGED <<mt5_accounts, admin_settings, dash, adm, net, browser>>

\* elevation to admin, out of band: a direct insert into user_roles that
\* no policy is applied to; UNIQUE(user_id, role) makes a repeat a no-op here
GrantAdminOutOfBand(u) ==
    /\ u \in users
    /\ [user_id |-> u, role |-> "admin"] \notin user_roles
    /\ user_roles' = user_roles \cup {[user_id |-> u, role |-> "admin"]}
    /\ resp' = Response("grant", "user_roles", Anon, Ok, {}, 1, FALSE, u)
    /\ UNCHANGED <<users, profiles, mt5_accounts, admin_settings, dash, adm, net, browser>>

\* ------------------------------------------------- requests on mt5_accounts
\* select('*') [.eq('user_id', owner)]: owner = Anon stands for no filter
ApiSelectAccounts(caller, owner) ==
    /\ caller \in ApiCallers
    /\ LET named == IF owner = Anon THEN mt5_accounts
                    ELSE { r \in mt5_accounts : r.user_id = owner }
           rows == Visible("mt5_accounts", named, caller)
       IN  resp' = Response("select", "mt5_accounts", caller, Ok, rows,
                            Cardinality(rows), rows # named, owner)
    /\ UNCHANGED <<store, screens, net, browser>>

\* a row of mt5_accounts; id stands for the generated primary key, booleans
\* not given by the request take DEFAULT FALSE
AccountRow(id, owner, deposit, balance, ptr, cp) ==
    [id |-> id, user_id |-> owner, account_id |-> "123", password |-> "secret",
     server |-> "Demo", initial_deposit |-> deposit, current_balance |-> balance,
     profit_target_reached |-> ptr, commission_paid |-> cp]

NewAccountId == Cardinality(mt5_accounts) + 1

\* outcome of INSERT INTO mt5_accounts by caller: WITH CHECK of the INSERT
\* policies on the new row, then the foreign key to auth.users
InsertAccountStatus(caller, row) ==
    IF ~Allowed("mt5_accounts", "INSERT", caller, row) THEN RlsError
    ELSE IF row.user_id \notin users THEN FkError
    ELSE Ok

ApiInsertAccount(caller, owner, deposit, balance, ptr, cp) ==
    /\ caller \in ApiCallers
    /\ LET row == AccountRow(NewAccountId, owner, deposit, balance, ptr, cp)
           st == InsertAccountStatus(caller, row)
       IN  /\ st = Ok => Cardinality(mt5_accounts) < MaxAccounts
           /\ mt5_accounts' = IF st = Ok THEN mt5_accounts \cup {row} ELSE mt5_accounts
           /\ resp' = Response("insert", "mt5_accounts", caller, st, {},
                               IF st = Ok THEN 1 ELSE 0, st = RlsError, owner)
    /\ UNCHANGED <<users, profiles, user_roles, admin_settings, screens, net, browser>>

\* the columns the Admin screen writes, and the values each can take
AccountFields == {"current_balance", "profit_target_reached", "commission_paid"}

FieldValues(f) == IF f = "current_balance" THEN Amounts ELSE BOOLEAN

\* the update writing a whole row: the columns it does not name fall back to
\* their defaults
UpdateAccountRowsReplace(caller, id, f, v) ==
    LET named == { r \in mt5_accounts : r.id = id }
        touched == Touchable("mt5_accounts", "UPDATE", named, caller)
    IN  [named |-> named, touched |-> touched,
         table |-> (mt5_accounts \ touched)
                     \cup { [[r EXCEPT !.profit_target_reached = FALSE,
                                       !.commission_paid = FALSE] EXCEPT ![f] = v] : r \in touched }]

\* the update with a version test: it writes only a column still at the
\* value the row was created with, and touches no row otherwise
UpdateAccountRowsIfUntouched(caller, id, f, v) ==
    LET named == { r \in mt5_accounts : r.id = id }
        fresh == { r \in Touchable("mt5_accounts", "UPDATE", named, caller) :
                     r[f] = (IF f = "current_balance" THEN r.initial_deposit ELSE FALSE) }
    IN  [named |-> named, touched |-> fresh,
         table |-> (mt5_accounts \ fresh) \cup { [r EXCEPT ![f] = v] : r \in fresh }]

\* the update carried out as a delete whose re-insert is missing
UpdateAccountRowsDrop(caller, id, f, v) ==
    LET named == { r \in mt5_accounts : r.id = id }
        touched == Touchable("mt5_accounts", "UPDATE", named, caller)
    IN  [named |-> named, touched |-> touched, table |-> mt5_accounts \ touched]

\* the update keeping the business rule: setting commission_paid also sets
\* profit_target_reached
UpdateAccountRowsSyncFlags(caller, id, f, v) ==
    LET named == { r \in mt5_accounts : r.id = id }
        touched == Touchable("mt5_accounts", "UPDATE", named, caller)
    IN  [named |-> named, touched |-> touched,
         table |-> (mt5_accounts \ touched)
                     \cup { IF f = "commission_paid" /\ v = TRUE
                            THEN [r EXCEPT ![f] = v, !.profit_target_reached = TRUE]
                            ELSE [r EXCEPT ![f] = v] : r \in touched }]

\* update(updates).eq('id', id) by caller: the rows touched and the table after
UpdateAccountRows(caller, id, f, v) ==
    LET named == { r \in mt5_accounts : r.id = id }
        touched == Touchable("mt5_accounts", "UPDATE", named, caller)
    IN  [named |-> named, touched |-> touched,
         table |-> (mt5_accounts \ touched) \cup { [r EXCEPT ![f] = v] : r \in touched }]

ApiUpdateAccount(caller, id, f, v) ==
    /\ caller \in ApiCallers
    /\ LET u == UpdateAccountRows(caller, id, f, v)
       IN  /\ mt5_accounts' = u.table
           /\ resp' = [Response("update", "mt5_accounts", caller, Ok, {},
                                Cardinality(u.touched), u.touched # u.named, id)
                          EXCEPT !.field = f]
    /\ UNCHANGED <<users, profiles, user_roles, admin_settings, screens, net, browser>>

\* ----------------------------------------------------- requests on profiles
ApiSelectProfiles(caller, owner) ==
    /\ caller \in ApiCallers
    /\ LET named == IF owner = Anon THEN profiles
                    ELSE { r \in profiles : r.user_id = owner }
           rows == Visible("profiles", named, caller)
       IN  resp' = Response("select", "profiles", caller, Ok, rows,
                            Cardinality(rows), rows # named, owner)
    /\ UNCHANGED <<store, screens, net, browser>>

\* INSERT INTO profiles: WITH CHECK, the foreign key, UNIQUE(user_id)
InsertProfileStatus(caller, row) ==
    IF ~Allowed("profiles", "INSERT", caller, row) THEN RlsError
    ELSE IF row.user_id \notin users THEN FkError
    ELSE IF \E q \in profiles : q.user_id = row.user_id THEN UniqueError
    ELSE Ok

ApiInsertProfile(caller, owner, name, handle) ==
    /\ caller \in ApiCallers
    /\ LET row == [user_id |-> owner, full_name |-> name, telegram_handle |-> handle]
           st == InsertProfileStatus(caller, row)
       IN  /\ profiles' = IF st = Ok THEN profiles \cup {row} ELSE profiles
           /\ resp' = Response("insert", "profiles", caller, st, {},
                               IF st = Ok THEN 1 ELSE 0, st = RlsError, owner)
    /\ UNCHANGED <<users, user_roles, mt5_accounts, admin_settings, screens, net, browser>>

ProfileFields == {"full_name", "telegram_handle"}

ProfileValues(f) == IF f = "full_name" THEN ProfileNames ELSE ProfileHandles

\* update({f: v}).eq('user_id', owner)
ApiUpdateProfile(caller, owner, f, v) ==
    /\ caller \in ApiCallers
    /\ LET named == { r \in profiles : r.user_id = owner }
           touched == Touchable("profiles", "UPDATE", named, caller)
       IN  /\ profiles' = (profiles \ touched) \cup { [r EXCEPT ![f] = v] : r \in touched }
           /\ resp' = [Response("update", "profiles", caller, Ok, {},
                                Cardinality(touched), touched # named, owner)
                          EXCEPT !.field = f]
    /\ UNCHANGED <<users, user_roles, mt5_accounts, admin_settings, screens, net, browser>>

\* delete().eq('user_id', owner)
ApiDeleteProfile(caller, owner) ==
    /\ caller \in ApiCallers
    /\ LET named == { r \in profiles : r.user_id = owner }
           touched == Touchable("profiles", "DELETE", named, caller)
       IN  /\ profiles' = profiles \ touched
           /\ resp' = Response("delete", "profiles", caller, Ok, {},
                               Cardinality(touched), touched # named, owner)
    /\ UNCHANGED <<users, user_roles, mt5_accounts, admin_settings, screens, net, browser>>

\* --------------------------------------------------- requests on user_roles
ApiSelectRoles(caller, owner) ==
    /\ caller \in ApiCallers
    /\ LET named == IF owner = Anon THEN user_roles
                    ELSE { r \in user_roles : r.user_id = owner }
           rows == Visible("user_roles", named, caller)
       IN  resp' = Response("select", "user_roles", caller, Ok, rows,
                            Cardinality(rows), rows # named, owner)
    /\ UNCHANGED <<store, screens, net, browser>>

\* INSERT INTO user_roles: WITH CHECK, the foreign key, UNIQUE(user_id, role)
InsertRoleStatus(caller, row) ==
    IF ~Allowed("user_roles", "INSERT", caller, row) THEN RlsError
    ELSE IF row.user_id \notin users THEN FkError
    ELSE IF row \in user_roles THEN UniqueError
    ELSE Ok

ApiInsertRole(caller, owner, role) ==
    /\ caller \in ApiCallers
    /\ LET row == [user_id |-> owner, role |-> role]
           st == InsertRoleStatus(caller, row)
       IN  /\ user_roles' = IF st = Ok THEN user_roles \cup {row} ELSE user_roles
           /\ resp' = Response("insert", "user_roles", caller, st, {},
                               IF st = Ok THEN 1 ELSE 0, st = RlsError, owner)
    /\ UNCHANGED <<users, profiles, mt5_accounts, admin_settings, screens, net, browser>>

\* update({role: newrole}).eq('user_id', owner).eq('role', role)
ApiUpdateRole(caller, owner, role, newrole) ==
    /\ caller \in ApiCallers
    /\ LET named == user_roles \cap {[user_id |-> owner, role |-> role]}
           touched == Touchable("user_roles", "UPDATE", named, caller)
           after == (user_roles \ touched) \cup { [r EXCEPT !.role = newrole] : r \in touched }
           clash == Cardinality(after) < Cardinality(user_roles)
       IN  /\ user_roles' = IF clash THEN user_roles ELSE after
           /\ resp' = Response("update", "user_roles", caller,
                               IF clash THEN UniqueError ELSE Ok, {},
                               IF clash THEN 0 ELSE Cardinality(touched),
                               touched # named, owner)
    /\ UNCHANGED <<users, profiles, mt5_accounts, admin_settings, screens, net, browser>>

\* delete().eq('user_id', owner).eq('role', role)
ApiDeleteRole(caller, owner, role) ==
    /\ caller \in ApiCallers
    /\ LET named == user_roles \cap {[user_id |-> owner, role |-> role]}
           touched == Touchable("user_roles", "DELETE", named, caller)
       IN  /\ user_roles' = user_roles \ touched
           /\ resp' = Response("delete", "user_roles", caller, Ok, {},
                               Cardinality(touched), touched # named, owner)
    /\ UNCHANGED <<users, profiles, mt5_accounts, admin_settings, screens, net, browser>>

\* ----------------------------------------------- requests on admin_settings
\* the texts a settings form can hold
SettingsForms ==
    [fbs_partner_link : {"https://fbs.com/partner-link"},
     usdt_wallet_address : {"TBD_USDT_ADDRESS", "TXYZ"},
     telegram_bot_username : {"your_telegram_bot"}]

SettingsRow(id, form) ==
    [id |-> id, fbs_partner_link |-> form.fbs_partner_link,
     usdt_wallet_address |-> form.usdt_wallet_address,
     telegram_bot_username |-> form.telegram_bot_username]

\* id UUID DEFAULT gen_random_uuid(): an id no row has and no screen holds
NewSettingsId ==
    CHOOSE n \in 1..(MaxSettings + 2) :
        /\ \A r \in admin_settings \cup adm.adminSettings : r.id # n
        /\ \A m \in 1..(n - 1) : \E r \in admin_settings \cup adm.adminSettings : r.id = m

\* an upsert whose object has no id (adminSettings?.id is undefined)
NoId == 0

\* select('*')
ApiSelectSettings(caller) ==
    /\ caller \in ApiCallers
    /\ LET rows == Visible("admin_settings", admin_settings, caller)
       IN  resp' = Response("select", "admin_settings", caller, Ok, rows,
                            Cardinality(rows), rows # admin_settings, 0)
    /\ UNCHANGED <<store, screens, net, browser>>

\* insert(form): WITH CHECK of the policies applicable to INSERT
ApiInsertSettings(caller, form) ==
    /\ caller \in ApiCallers
    /\ LET row == SettingsRow(NewSettingsId, form)
           st == IF Allowed("admin_settings", "INSERT", caller, row) THEN Ok ELSE RlsError
       IN  /\ st = Ok => Cardinality(admin_settings) < MaxSettings
           /\ admin_settings' = IF st = Ok THEN admin_settings \cup {row} ELSE admin_settings
           /\ resp' = Response("insert", "admin_settings", caller, st, {},
                               IF st = Ok THEN 1 ELSE 0, st = RlsError, row.id)
    /\ UNCHANGED <<users, profiles, user_roles, mt5_accounts, screens, net, browser>>

\* update(form).eq('id', id)
ApiUpdateSettings(caller, id, form) ==
    /\ caller \in ApiCallers
    /\ LET named == { r \in admin_settings : r.id = id }
           touched == Touchable("admin_settings", "UPDATE", named, caller)
       IN  /\ admin_settings' = (admin_settings \ touched)
                                   \cup { SettingsRow(r.id, form) : r \in touched }
           /\ resp' = Response("update", "admin_settings", caller, Ok, {},
                               Cardinality(touched), touched # named, id)
    /\ UNCHANGED <<users, profiles, user_roles, mt5_accounts, screens, net, browser>>

\* delete().eq('id', id)
ApiDeleteSettings(caller, id) ==
    /\ caller \in ApiCallers
    /\ LET named == { r \in admin_settings : r.id = id }
           touched == Touchable("admin_settings", "DELETE", named, caller)
       IN  /\ admin_settings' = admin_settings \ touched
           /\ resp' = Response("delete", "admin_settings", caller, Ok, {},
                               Cardinality(touched), touched # named, id)
    /\ UNCHANGED <<users, profiles, user_roles, mt5_accounts, screens, net, browser>>

\* upsert({id, ...form}): INSERT ... ON CONFLICT (id) DO UPDATE.  The row
\* proposed for insertion must pass the INSERT policies; a row with that id
\* is then updated (its UPDATE policies must pass, else an error), and
\* without such a row, or without an id, a new row is inserted.
UpsertSettingsRows(caller, id, form) ==
    LET row == SettingsRow(IF id = NoId THEN NewSettingsId ELSE id, form)
        clash == { r \in admin_settings : r.id = row.id }
    IN  IF ~Allowed("admin_settings", "INSERT", caller, row)
        THEN [status |-> RlsError, inserted |-> FALSE, table |-> admin_settings]
        ELSE IF clash # {}
        THEN IF clash = Touchable("admin_settings", "UPDATE", clash, caller)
             THEN [status |-> Ok, inserted |-> FALSE,
                   table |-> (admin_settings \ clash) \cup {row}]
             ELSE [status |-> RlsError, inserted |-> FALSE, table |-> admin_settings]
        ELSE [status |-> Ok, inserted |-> TRUE, table |-> admin_settings \cup {row}]

ApiUpsertSettings(caller, id, form) ==
    /\ caller \in ApiCallers
    /\ LET u == UpsertSettingsRows(caller, id, form)
       IN  /\ u.inserted => Cardinality(admin_settings) < MaxSettings
           /\ admin_settings' = u.table
           /\ resp' = Response("upsert", "admin_settings", caller, u.status, {},
                               IF u.status = Ok THEN 1 ELSE 0, u.status = RlsError, id)
    /\ UNCHANGED <<users, profiles, user_roles, mt5_accounts, screens, net, browser>>

\* ---------------------------------------------------------------- Dashboard
\* .single(): the row when exactly one comes back, else error PGRST116 and
\* data null.  A nullable row is a set here: {} for null, {r} for the row r.
Single(rows) ==
    IF Cardinality(rows) = 1 THEN rows ELSE {}

\* Dashboard.fetchData for the session's identity u, over the accounts
\* table t: the three selects and the state they set (a select filtered by
\* the policies raises no error)
DashboardFetched(u, t, toast) ==
    LET profileData == Single(Visible("profiles", { r \in profiles : r.user_id = u }, u))
        mt5Data == Visible("mt5_accounts", { r \in t : r.user_id = u }, u)
        settingsData == { [usdt_wallet_address |-> r.usdt_wallet_address] :
                            r \in Single(Visible("admin_settings", admin_settings, u)) }
    IN  [user |-> u, loading |-> FALSE, profile |-> profileData,
         mt5Accounts |-> mt5Data, adminSettings |-> settingsData, toast |-> toast]

\* Dashboard's useEffect for a signed-in user: fetchData
DashboardOpen(u) ==
    /\ u \in users
    /\ dash' = DashboardFetched(u, mt5_accounts, "none")
    /\ resp' = Response("select", "admin_settings", u, Ok,
                        Visible("admin_settings", admin_settings, u),
                        Cardinality(Visible("admin_settings", admin_settings, u)),
                        FALSE, 0)
    /\ UNCHANGED <<store, adm, net, browser>>

\* fetchData on a freshly mounted Dashboard of u when the request on table
\* at fails to complete: on profiles or mt5_accounts the error is thrown
\* (nothing after it is set, "Error loading data"), on admin_settings it is
\* only logged and setAdminSettings gets null; finally setLoading(false)
DashboardOpenFetchError(u, at) ==
    /\ u \in users
    /\ LET f == DashboardFetched(u, mt5_accounts, "none")
       IN  dash' = CASE at = "profiles" ->
                          [NoDashboard EXCEPT !.user = u, !.loading = FALSE,
                                              !.toast = "Error loading data"]
                     [] at = "mt5_accounts" ->
                          [NoDashboard EXCEPT !.user = u, !.loading = FALSE,
                                              !.profile = f.profile,
                                              !.toast = "Error loading data"]
                     [] at = "admin_settings" ->
                          [f EXCEPT !.adminSettings = {}]
    /\ resp' = NoResponse
    /\ UNCHANGED <<store, adm, net, browser>>

\* a badge that tests commission_paid before profit_target_reached
BadgePaidFirst(account) ==
    IF account.commission_paid THEN "Commission Paid"
    ELSE IF account.profit_target_reached THEN "Commission Due" ELSE "none"

\* the badge of an account card (Dashboard and Admin render the same one)
Badge(account) ==
    IF account.profit_target_reached
    THEN IF account.commission_paid THEN "Commission Paid" ELSE "Commission Due"
    ELSE "none"

\* ----------------------------------------------------------- MT5AccountForm
\* parseFloat of the deposit field: the number a text spells, else NaN
NaN == -1
DepositTexts == {"", "abc"} \cup { ToString(n) : n \in Amounts }

ParseFloat(t) ==
    IF \E n \in Amounts : ToString(n) = t
    THEN CHOOSE n \in Amounts : ToString(n) = t
    ELSE NaN

FormDatas ==
    [accountId : {"", "123"}, password : {"", "secret"}, server : {"", "Demo"},
     initialDeposit : DepositTexts]

\* handleSubmit's validation: the toast it raises, "none" when it passes
FormValidation(formData) ==
    IF formData.accountId = "" \/ formData.password = "" \/ formData.server = ""
          \/ formData.initialDeposit = ""
    THEN "Missing information"
    ELSE IF ParseFloat(formData.initialDeposit) = NaN \/ ParseFloat(formData.initialDeposit) <= 0
    THEN "Invalid deposit amount"
    ELSE "none"

\* the insert without current_balance: the column's DEFAULT 0 is stored
FormRowDefaultBalance(u, formData) ==
    [id |-> NewAccountId, user_id |-> u, account_id |-> formData.accountId,
     password |-> formData.password, server |-> formData.server,
     initial_deposit |-> ParseFloat(formData.initialDeposit),
     current_balance |-> 0,
     profit_target_reached |-> FALSE, commission_paid |-> FALSE]

\* the row handleSubmit inserts for the session's identity u
FormRow(u, formData) ==
    [id |-> NewAccountId, user_id |-> u, account_id |-> formData.accountId,
     password |-> formData.password, server |-> formData.server,
     initial_deposit |-> ParseFloat(formData.initialDeposit),
     current_balance |-> ParseFloat(formData.initialDeposit),
     profit_target_reached |-> FALSE, commission_paid |-> FALSE]

\* MT5AccountForm.handleSubmit on the Dashboard of dash.user, with
\* onAccountAdded = handleMT5AccountAdded (refetch, then the toast)
FormSubmit(formData) ==
    /\ dash.user # Anon
    /\ ~dash.loading
    /\ LET u == dash.user
           invalid == FormValidation(formData)
           row == FormRow(u, formData)
           st == InsertAccountStatus(u, row)
       IN  IF invalid # "none"
           THEN /\ dash' = [dash EXCEPT !.toast = invalid]
                /\ UNCHANGED <<mt5_accounts, resp>>
           ELSE /\ st = Ok => Cardinality(mt5_accounts) < MaxAccounts
                /\ mt5_accounts' = IF st = Ok THEN mt5_accounts \cup {row} ELSE mt5_accounts
                /\ resp' = Response("insert", "mt5_accounts", u, st, {},
                                    IF st = Ok THEN 1 ELSE 0, st = RlsError, u)
                /\ dash' = IF st = Ok
                           THEN DashboardFetched(u, mt5_accounts \cup {row}, "MT5 Account Added")
                           ELSE [dash EXCEPT !.toast = "Error"]
    /\ UNCHANGED <<users, profiles, user_roles, admin_settings, adm, net, browser>>

\* -------------------------------------------------------------------- Admin
\* rows ordered by created_at descending: newest (largest id) first
RECURSIVE NewestFirst(_)
NewestFirst(rows) ==
    IF rows = {} THEN <<>>
    ELSE LET top == CHOOSE r \in rows : \A q \in rows : q.id <= r.id
         IN  <<top>> \o NewestFirst(rows \ {top})

\* Admin.fetchData for the session's identity a on a screen in state prev,
\* over the accounts table t and the settings table s: setUsers,
\* setMT5Accounts, and setAdminSettings only when .single() gave a row
AdminFetchedOver(prev, a, t, s, toast) ==
    LET userData == Visible("profiles", profiles, a)
        mt5Data == NewestFirst(Visible("mt5_accounts", t, a))
        settingsData == Single(Visible("admin_settings", s, a))
    IN  [user |-> a, loading |-> FALSE, users |-> userData, mt5Accounts |-> mt5Data,
         adminSettings |-> IF settingsData = {} THEN prev.adminSettings ELSE settingsData,
         toast |-> toast]

\* fetchData called again on the mounted screen, over the accounts table t
AdminFetched(a, t, toast) ==
    AdminFetchedOver(adm, a, t, admin_settings, toast)

\* Admin's useEffect: a signed-in non-admin is sent to the dashboard with
\* "Access Denied", an admin gets fetchData
AdminOpen(a) ==
    /\ a \in users
    /\ adm' = IF IsAdmin(a)
              THEN AdminFetchedOver(NoAdmin, a, mt5_accounts, admin_settings, "none")
              ELSE [adm EXCEPT !.toast = "Access Denied"]
    /\ resp' = NoResponse
    /\ UNCHANGED <<store, dash, net, browser>>

\* updateMT5Account(accountId, {f: v}) on the Admin screen of adm.user: the
\* update, the "Account updated" toast (a request without error), fetchData
updateMT5Account(accountId, f, v) ==
    /\ adm.user # Anon
    /\ ~adm.loading
    /\ LET u == UpdateAccountRows(adm.user, accountId, f, v)
       IN  /\ mt5_accounts' = u.table
           /\ resp' = [Response("update", "mt5_accounts", adm.user, Ok, {},
                                Cardinality(u.touched), u.touched # u.named, accountId)
                          EXCEPT !.field = f]
           /\ adm' = AdminFetched(adm.user, u.table, "Account updated")
    /\ UNCHANGED <<users, profiles, user_roles, admin_settings, dash, net, browser>>

\* the account cards of the Admin screen
AdminCards == { adm.mt5Accounts[i] : i \in 1..Len(adm.mt5Accounts) }

\* the Commission Due counter of the Admin screen
accountsNeedingCommission ==
    Cardinality({ i \in 1..Len(adm.mt5Accounts) :
                    /\ adm.mt5Accounts[i].profit_target_reached
                    /\ ~adm.mt5Accounts[i].commission_paid })

\* the Current input's onChange on the card of account id:
\* parseFloat(e.target.value) || 0
AdminEditBalance(id, newBalance) ==
    \E account \in AdminCards :
        /\ account.id = id
        /\ updateMT5Account(account.id, "current_balance", newBalance)

\* the Profit Target Reached checkbox's onChange: e.target.checked is the
\* opposite of what the card shows
AdminToggleProfitTarget(id) ==
    \E account \in AdminCards :
        /\ account.id = id
        /\ updateMT5Account(account.id, "profit_target_reached", ~account.profit_target_reached)

\* the Commission Paid checkbox's onChange
AdminToggleCommissionPaid(id) ==
    \E account \in AdminCards :
        /\ account.id = id
        /\ updateMT5Account(account.id, "commission_paid", ~account.commission_paid)

\* fetchData on a freshly mounted Admin screen of administrator a when the
\* request on table at fails to complete: on profiles or mt5_accounts the
\* error is thrown (nothing after it is set, "Error loading data"), on
\* admin_settings it is only logged; finally setLoading(false)
FetchTables == {"profiles", "mt5_accounts", "admin_settings"}

AdminOpenFetchError(a, at) ==
    /\ a \in users
    /\ IsAdmin(a)
    /\ LET f == AdminFetchedOver(NoAdmin, a, mt5_accounts, admin_settings, "none")
       IN  adm' = CASE at = "profiles" ->
                         [NoAdmin EXCEPT !.user = a, !.loading = FALSE,
                                         !.toast = "Error loading data"]
                    [] at = "mt5_accounts" ->
                         [NoAdmin EXCEPT !.user = a, !.loading = FALSE, !.users = f.users,
                                         !.toast = "Error loading data"]
                    [] at = "admin_settings" ->
                         [f EXCEPT !.adminSettings = {}]
    /\ resp' = NoResponse
    /\ UNCHANGED <<store, dash, net, browser>>

\* updateSettings with settingsForm as typed: the upsert keyed by
\* adminSettings?.id, then "Settings updated" and fetchData, or "Error"
updateSettings(settingsForm) ==
    /\ adm.user # Anon
    /\ ~adm.loading
    /\ LET id == IF adm.adminSettings = {} THEN NoId
                 ELSE (CHOOSE r \in adm.adminSettings : TRUE).id
           u == UpsertSettingsRows(adm.user, id, settingsForm)
       IN  /\ u.inserted => Cardinality(admin_settings) < MaxSettings
           /\ admin_settings' = u.table
           /\ resp' = Response("upsert", "admin_settings", adm.user, u.status, {},
                               IF u.status = Ok THEN 1 ELSE 0, u.status = RlsError, id)
           /\ adm' = IF u.status = Ok
                     THEN AdminFetchedOver(adm, adm.user, mt5_accounts, u.table, "Settings updated")
                     ELSE [adm EXCEPT !.toast = "Error"]
    /\ UNCHANGED <<users, profiles, user_roles, mt5_accounts, dash, net, browser>>

\* -------------------------------------------------------------- local storage
\* a key of local storage is the sequence of its characters
SupabaseAuthPrefix == <<"s", "u", "p", "a", "b", "a", "s", "e", ".", "a", "u", "t", "h", ".">>
SbInfix == <<"s", "b", "-">>

\* the key the client stores the session under, sb-<ref>-auth-token, and the
\* key next-themes stores the theme under
SessionKey == <<"s", "b", "-", "r", "e", "f", "-", "a", "u", "t", "h", "-", "t", "o", "k", "e", "n">>
ThemeKey == <<"t", "h", "e", "m", "e">>

StartsWith(key, prefix) ==
    /\ Len(key) >= Len(prefix)
    /\ SubSeq(key, 1, Len(prefix)) = prefix

Includes(key, part) ==
    \E i \in 1..(Len(key) - Len(part) + 1) : SubSeq(key, i, i + Len(part) - 1) = part

\* cleanupAuthState removing only the keys that start with 'supabase.auth.'
cleanupAuthStatePrefixOnly(storage) ==
    { key \in storage : ~StartsWith(key, SupabaseAuthPrefix) }

\* cleanupAuthState: the keys left in storage
cleanupAuthState(storage) ==
    { key \in storage : ~(StartsWith(key, SupabaseAuthPrefix) \/ Includes(key, SbInfix)) }

\* the session artifacts storage holds
SessionArtifacts(storage) == storage \cap {SessionKey}

\* the auth client: sign-out clears the locally cached session artifacts,
\* sign-in caches the session it was given
AuthSignOut(storage) == storage \ {SessionKey}
AuthSignIn(storage) == storage \cup {SessionKey}

\* a request as a handler logs it
Call(name, storage) == [call |-> name, stored |-> SessionArtifacts(storage)]

\* the theme toggle of the navigation bar: setTheme stores the theme
ToggleTheme ==
    /\ localStorage' = localStorage \cup {ThemeKey}
    /\ UNCHANGED <<store, resp, screens, net, auth>>

\* ------------------------------------------------------------------------ Auth
\* the identity the auth service keeps for an e-mail address
EmailOf(u) == "u" \o ToString(u) \o "@x.io"
Emails == {""} \cup { EmailOf(u) : u \in Identities }
IdentityOf(email) == CHOOSE u \in Identities : EmailOf(u) = email

Passwords == {"", "12345", "123456"}
AuthError == "auth_error"

LoginForms == [email : Emails, password : Passwords]

\* handleLogin's validation: the toast it raises, "none" when it passes
LoginValidation(loginForm) ==
    IF loginForm.email = "" \/ loginForm.password = ""
    THEN "Missing information"
    ELSE "none"

\* handleLogin; reply is what signInWithPassword comes back with
LoginReplies == {"ok", "invalid", "network"}

handleLogin(loginForm, reply) ==
    LET invalid == LoginValidation(loginForm)
        cleaned == cleanupAuthState(localStorage)
        signedOut == AuthSignOut(cleaned)
        u == IdentityOf(loginForm.email)
        ok == reply = "ok" /\ u \in users
        calls == <<Call("signOut", cleaned), Call("signInWithPassword", signedOut)>>
    IN  /\ IF invalid # "none"
           THEN /\ auth' = [handler |-> "handleLogin", isLoading |-> FALSE,
                            toast |-> invalid, calls |-> <<>>, removed |-> {}]
                /\ UNCHANGED <<localStorage, resp>>
           ELSE /\ auth' = [handler |-> "handleLogin", isLoading |-> FALSE,
                            toast |-> IF ok THEN "Welcome back!" ELSE "Error signing in",
                            calls |-> calls, removed |-> localStorage \ cleaned]
                /\ localStorage' = IF ok THEN AuthSignIn(signedOut) ELSE signedOut
                /\ resp' = Response("signin", "auth.users", Anon,
                                    IF ok THEN Ok ELSE AuthError, {}, 0, FALSE, u)
        /\ UNCHANGED <<store, screens, net>>

\* the sign-up forms: the complete ones, and each of them with one defect
CompleteSignupForms ==
    [fullName : {"Jane"}, email : Emails \ {""}, telegramHandle : {"@jane"},
     password : {"123456"}, confirmPassword : {"123456"}]

SignupForms ==
    CompleteSignupForms
       \cup { [f EXCEPT !.fullName = ""] : f \in CompleteSignupForms }
       \cup { [f EXCEPT !.email = ""] : f \in CompleteSignupForms }
       \cup { [f EXCEPT !.telegramHandle = ""] : f \in CompleteSignupForms }
       \cup { [f EXCEPT !.password = ""] : f \in CompleteSignupForms }
       \cup { [f EXCEPT !.confirmPassword = ""] : f \in CompleteSignupForms }
       \cup { [f EXCEPT !.confirmPassword = "12345"] : f \in CompleteSignupForms }
       \cup { [f EXCEPT !.password = "12345", !.confirmPassword = "12345"] :
                 f \in CompleteSignupForms }

\* the radio group "Do you have a trading account?"
HasAccounts == {"", "yes", "no"}

\* the validation without the test of the password's length
SignupValidationAnyLength(signupForm, hasAccount) ==
    IF signupForm.fullName = "" \/ signupForm.email = ""
          \/ signupForm.telegramHandle = "" \/ signupForm.password = ""
    THEN "Missing information"
    ELSE IF signupForm.password # signupForm.confirmPassword THEN "Password mismatch"
    ELSE IF hasAccount = "" THEN "Please select an option"
    ELSE "none"

\* handleSignup's validation: the toast it raises, "none" when it passes
SignupValidation(signupForm, hasAccount) ==
    IF signupForm.fullName = "" \/ signupForm.email = ""
          \/ signupForm.telegramHandle = "" \/ signupForm.password = ""
    THEN "Missing information"
    ELSE IF signupForm.password # signupForm.confirmPassword THEN "Password mismatch"
    ELSE IF Len(signupForm.password) < 6 THEN "Password too short"
    ELSE IF hasAccount = "" THEN "Please select an option"
    ELSE "none"

\* what the partner-link block does: the link is opened, or the select or
\* window.open throws; and what signUp comes back with
LinkOutcomes == {"opened", "throws"}
SignupReplies == {"ok", "network"}

\* handleSignup: with "no" the partner link is opened and the handler
\* returns; when that block throws, the catch only logs and the handler
\* goes on to the sign-up
handleSignup(signupForm, hasAccount, link, reply) ==
    LET invalid == SignupValidation(signupForm, hasAccount)
        linkCall == IF hasAccount = "no" THEN <<Call("select admin_settings", localStorage)>>
                    ELSE <<>>
        cleaned == cleanupAuthState(localStorage)
        signedOut == AuthSignOut(cleaned)
        u == IdentityOf(signupForm.email)
        meta == [full_name |-> signupForm.fullName,
                 telegram_handle |-> signupForm.telegramHandle]
        o == IF reply = "ok" /\ u \notin users
             THEN on_auth_user_created(u, meta, "none")
             ELSE [status |-> AuthError, users |-> users,
                   profiles |-> profiles, user_roles |-> user_roles]
    IN  /\ IF invalid # "none"
           THEN /\ auth' = [handler |-> "handleSignup", isLoading |-> FALSE,
                            toast |-> invalid, calls |-> <<>>, removed |-> {}]
                /\ UNCHANGED <<users, profiles, user_roles, localStorage, resp>>
           ELSE IF hasAccount = "no" /\ link = "opened"
           THEN /\ auth' = [handler |-> "handleSignup", isLoading |-> FALSE,
                            toast |-> "Create Trading Account", calls |-> linkCall,
                            removed |-> {}]
                /\ resp' = Response("select", "admin_settings", Anon, Ok,
                                    Single(Visible("admin_settings", admin_settings, Anon)),
                                    0, FALSE, 0)
                /\ UNCHANGED <<users, profiles, user_roles, localStorage>>
           ELSE /\ auth' = [handler |-> "handleSignup", isLoading |-> FALSE,
                            toast |-> IF o.status = Ok THEN "Account created!"
                                      ELSE "Error creating account",
                            calls |-> linkCall \o <<Call("signOut", cleaned),
                                                    Call("signUp", signedOut)>>,
                            removed |-> localStorage \ cleaned]
                /\ users' = o.users
                /\ profiles' = o.profiles
                /\ user_roles' = o.user_roles
                /\ localStorage' = signedOut
                /\ resp' = Response("signup", "auth.users", Anon, o.status, {}, 0, FALSE, u)
        /\ UNCHANGED <<mt5_accounts, admin_settings, screens, net>>

\* handleSignOut of the navigation bar; reply is what signOut does: it
\* resolves (with or without an error, which is not looked at) or throws
SignOutReplies == {"ok", "error", "throws"}

handleSignOut(reply) ==
    LET cleared == {}
    IN  /\ auth' = [handler |-> "handleSignOut", isLoading |-> FALSE,
                    toast |-> IF reply = "throws" THEN "Error signing out"
                              ELSE "Signed out successfully",
                    calls |-> <<Call("signOut", cleared)>>,
                    removed |-> localStorage \ cleared]
        /\ localStorage' = IF reply = "ok" THEN AuthSignOut(cleared) ELSE cleared
        /\ resp' = Response("signout", "auth.users", Anon,
                            IF reply = "ok" THEN Ok ELSE AuthError, {}, 0, FALSE, 0)
        /\ UNCHANGED <<store, screens, net>>

\* ------------------------------------------------ the policy layer, applied
\* the protected tables and the commands a policy is declared for
Tables == {"profiles", "mt5_accounts", "user_roles", "admin_settings"}
Commands == {"SELECT", "INSERT", "UPDATE", "DELETE"}

\* the decision of the policy layer for one command of caller on one row of
\* table whose user_id is owner (admin_settings rows have none: no policy on
\* admin_settings reads it)
PolicyCheck(table, cmd, caller, owner) ==
    /\ caller \in ApiCallers
    /\ LET row == [user_id |-> owner]
           allowed == Allowed(table, cmd, caller, row)
       IN  resp' = [Response("check", table, caller, IF allowed THEN Ok ELSE RlsError,
                             {}, 0, ~allowed, owner) EXCEPT !.field = cmd]
    /\ UNCHANGED <<store, screens, net, browser>>

\* rpc('has_role', {_user_id, _role}): a STABLE function, one SELECT EXISTS
HasRoleCall(caller, _user_id, _role) ==
    /\ caller \in ApiCallers
    /\ resp' = [Response("rpc", "has_role", caller, Ok, {},
                         IF has_role(_user_id, _role) THEN 1 ELSE 0, FALSE, _user_id)
                   EXCEPT !.field = _role]
    /\ UNCHANGED <<store, screens, net, browser>>

\* ------------------------------------------------------- requests in flight
\* The handlers of the Admin screen are async functions: each await sends a
\* request and returns to the event loop, and the screen (whose loading flag
\* only the first fetchData clears) stays interactive meanwhile.  net holds
\* the requests sent and not yet taken by their handler; screen tells the
\* requests of the Admin screen adm from those of another administrator's
\* screen, of which only the requests are modelled.
Request(caller, screen, call, id, f, v) ==
    [caller |-> caller, screen |-> screen, call |-> call, id |-> id, field |-> f,
     value |-> v, state |-> "sent", n |-> 0, data |-> {}]

Remove(seq, i) == SubSeq(seq, 1, i - 1) \o SubSeq(seq, i + 1, Len(seq))

\* the requests of the Admin screen adm that have not returned
InFlightFromScreen == { i \in DOMAIN net : net[i].screen }

\* updateMT5Account up to its await: the update is sent
updateMT5AccountSend(accountId, f, v) ==
    /\ adm.user # Anon
    /\ ~adm.loading
    /\ Len(net) < MaxInflight
    /\ net' = Append(net, Request(adm.user, TRUE, "update", accountId, f, v))
    /\ UNCHANGED <<store, resp, screens, browser>>

\* the three inputs of an account card, their handler taken up to its await
AsyncEditBalance(id, newBalance) ==
    \E account \in AdminCards :
        /\ account.id = id
        /\ updateMT5AccountSend(account.id, "current_balance", newBalance)

AsyncToggleProfitTarget(id) ==
    \E account \in AdminCards :
        /\ account.id = id
        /\ updateMT5AccountSend(account.id, "profit_target_reached", ~account.profit_target_reached)

AsyncToggleCommissionPaid(id) ==
    \E account \in AdminCards :
        /\ account.id = id
        /\ updateMT5AccountSend(account.id, "commission_paid", ~account.commission_paid)

\* the same update sent from the Admin screen of another administrator a
OtherAdminSendUpdate(a, accountId, f, v) ==
    /\ a \in users
    /\ IsAdmin(a)
    /\ \E r \in mt5_accounts : r.id = accountId
    /\ Len(net) < MaxInflight
    /\ net' = Append(net, Request(a, FALSE, "update", accountId, f, v))
    /\ UNCHANGED <<store, resp, screens, browser>>

\* the store applies an update in flight: one UPDATE statement, atomic, on
\* the table as it is now
StoreApplyUpdate(i) ==
    /\ i \in DOMAIN net
    /\ net[i].call = "update"
    /\ net[i].state = "sent"
    /\ LET u == UpdateAccountRows(net[i].caller, net[i].id, net[i].field, net[i].value)
       IN  /\ mt5_accounts' = u.table
           /\ net' = [net EXCEPT ![i].state = "answered", ![i].n = Cardinality(u.touched)]
    /\ UNCHANGED <<users, profiles, user_roles, admin_settings, resp, screens, browser>>

\* the response of an update reaches its handler: no error, so the toast
\* and, not awaited, fetchData, whose first select is sent at once
ReceiveUpdate(i) ==
    /\ i \in DOMAIN net
    /\ net[i].call = "update"
    /\ net[i].state = "answered"
    /\ resp' = [Response("update", "mt5_accounts", net[i].caller, Ok, {}, net[i].n,
                         net[i].n = 0, net[i].id) EXCEPT !.field = net[i].field]
    /\ IF net[i].screen
       THEN /\ adm' = [adm EXCEPT !.toast = "Account updated"]
            /\ net' = Append(Remove(net, i), Request(adm.user, TRUE, "profiles", 0, "none", 0))
       ELSE /\ adm' = adm
            /\ net' = Remove(net, i)
    /\ UNCHANGED <<store, dash, browser>>

\* the getUserById calls fetchData makes for the profiles it got, all at
\* once (Promise.all over userData.map), in the order of the rows
RECURSIVE GetUserByIdCalls(_, _, _)
GetUserByIdCalls(caller, rows, userData) ==
    IF rows = {} THEN <<>>
    ELSE LET first == CHOOSE r \in rows : \A q \in rows : r.user_id <= q.user_id
         IN  <<[Request(caller, TRUE, "getUserById", first.user_id, "none", 0)
                   EXCEPT !.data = userData]>>
                \o GetUserByIdCalls(caller, rows \ {first}, userData)

\* the Admin screen mounted while none of its requests is in flight
AdminOpenIdle(a) ==
    /\ InFlightFromScreen = {}
    /\ AdminOpen(a)

\* the selects of fetchData, and the table each reads
FetchSelects == {"profiles", "mt5_accounts", "admin_settings"}

\* the store answers a select of fetchData in flight: the response carries
\* the rows the caller may see of the table as it is now
StoreAnswerSelect(i) ==
    /\ i \in DOMAIN net
    /\ net[i].screen
    /\ net[i].call \in FetchSelects
    /\ net[i].state = "sent"
    /\ LET a == net[i].caller
           rows == CASE net[i].call = "profiles" -> Visible("profiles", profiles, a)
                     [] net[i].call = "mt5_accounts" -> Visible("mt5_accounts", mt5_accounts, a)
                     [] net[i].call = "admin_settings" -> Visible("admin_settings", admin_settings, a)
       IN  net' = [net EXCEPT ![i].state = "answered", ![i].data = rows,
                              ![i].n = Cardinality(rows)]
    /\ UNCHANGED <<store, resp, screens, browser>>

\* a response reaches fetchData (a getUserById call is answered and received
\* in one step), which sets its state from it and goes on to its next await
FetchCalls == {"profiles", "getUserById", "mt5_accounts", "admin_settings"}

FetchDataStep(i) ==
    /\ i \in DOMAIN net
    /\ net[i].screen
    /\ net[i].call \in FetchCalls
    /\ net[i].call \in FetchSelects => net[i].state = "answered"
    /\ LET a == net[i].caller
           rest == Remove(net, i)
           userData == net[i].data
           lastCall == \A j \in DOMAIN rest : ~(rest[j].screen /\ rest[j].call = "getUserById"
                                                  /\ rest[j].data = net[i].data)
       IN  CASE net[i].call = "profiles" ->
                   IF userData = {}
                   THEN /\ adm' = [adm EXCEPT !.users = {}]
                        /\ net' = Append(rest, Request(a, TRUE, "mt5_accounts", 0, "none", 0))
                   ELSE /\ adm' = adm
                        /\ net' = rest \o GetUserByIdCalls(a, userData, userData)
             [] net[i].call = "getUserById" ->
                   IF lastCall
                   THEN /\ adm' = [adm EXCEPT !.users = net[i].data]
                        /\ net' = Append(rest, Request(a, TRUE, "mt5_accounts", 0, "none", 0))
                   ELSE /\ adm' = adm
                        /\ net' = rest
             [] net[i].call = "mt5_accounts" ->
                   /\ adm' = [adm EXCEPT !.mt5Accounts = NewestFirst(net[i].data)]
                   /\ net' = Append(rest, Request(a, TRUE, "admin_settings", 0, "none", 0))
             [] net[i].call = "admin_settings" ->
                   /\ adm' = LET settingsData == Single(net[i].data)
                             IN  [adm EXCEPT !.loading = FALSE,
                                             !.adminSettings = IF settingsData = {} THEN @
                                                               ELSE settingsData]
                   /\ net' = rest
    /\ UNCHANGED <<store, resp, dash, browser>>

\* ------------------------------------------------------------ specification
Metas == [full_name : MetaNames, telegram_handle : MetaHandles]

\* registration and out-of-band elevation
NextIdentity ==
    \/ \E u \in Identities, meta \in Metas, fault \in Faults : Register(u, meta, fault)
    \/ \E u \in Identities : GrantAdminOutOfBand(u)

\* every request on mt5_accounts a caller can send to the policy layer
NextAccountsApi ==
    \/ \E c \in Callers : \E o \in {Anon, c} : ApiSelectAccounts(c, o)
    \/ \E c \in Callers, o \in Identities, d \in Amounts, b \in Amounts, p \in BOOLEAN, q \in BOOLEAN :
          ApiInsertAccount(c, o, d, b, p, q)
    \/ \E c \in Callers, id \in 1..MaxAccounts, f \in AccountFields :
          \E v \in FieldValues(f) : ApiUpdateAccount(c, id, f, v)

\* every request on profiles
NextProfilesApi ==
    \/ \E c \in Callers : \E o \in {Anon, c} : ApiSelectProfiles(c, o)
    \/ \E c \in Callers, o \in Identities, n \in ProfileNames, h \in ProfileHandles :
          ApiInsertProfile(c, o, n, h)
    \/ \E c \in Callers, o \in Identities, f \in ProfileFields :
          \E v \in ProfileValues(f) : ApiUpdateProfile(c, o, f, v)
    \/ \E c \in Callers, o \in Identities : ApiDeleteProfile(c, o)

\* every request on user_roles
NextRolesApi ==
    \/ \E c \in Callers : \E o \in {Anon, c} : ApiSelectRoles(c, o)
    \/ \E c \in Callers, o \in Identities, r \in app_role : ApiInsertRole(c, o, r)
    \/ \E c \in Callers, o \in Identities, r \in app_role, r2 \in app_role :
          ApiUpdateRole(c, o, r, r2)
    \/ \E c \in Callers, o \in Identities, r \in app_role : ApiDeleteRole(c, o, r)

\* the whole store: registration, elevation and every request
Next == NextIdentity \/ NextAccountsApi \/ NextProfilesApi \/ NextRolesApi

Spec == Init /\ [][Next]_vars

\* The store restricted to what decides the mt5_accounts policies: who
\* exists, who is an administrator, and the requests on mt5_accounts.  The
\* registration metadata and the requests on profiles write nothing these
\* read, so one metadata value stands for all; an inserted row starts with
\* its balance at its deposit, any flags.
PlainMeta == [full_name |-> "Jane", telegram_handle |-> "@jane"]

NextAccounts ==
    \/ \E u \in Identities, fault \in Faults : Register(u, PlainMeta, fault)
    \/ \E u \in Identities : GrantAdminOutOfBand(u)
    \/ \E c \in Callers, o \in Identities : ApiDeleteRole(c, o, "admin")
    \/ \E c \in Callers : \E o \in {Anon, c} : ApiSelectAccounts(c, o)
    \/ \E c \in Callers, o \in Identities, d \in 1..MaxAmount, p \in BOOLEAN, q \in BOOLEAN :
          ApiInsertAccount(c, o, d, d, p, q)
    \/ \E c \in Callers, id \in 1..MaxAccounts, f \in AccountFields :
          \E v \in FieldValues(f) : ApiUpdateAccount(c, id, f, v)

SpecAccounts == Init /\ [][NextAccounts]_vars

\* The store restricted to which identities, profiles and roles exist:
\* registration, elevation and every request that adds or removes a row of
\* profiles or user_roles (a profile's text is written with one value).
NextRoles ==
    \/ \E u \in Identities, fault \in Faults : Register(u, PlainMeta, fault)
    \/ \E u \in Identities : GrantAdminOutOfBand(u)
    \/ \E c \in Callers, o \in Identities :
          ApiInsertProfile(c, o, PlainMeta.full_name, PlainMeta.telegram_handle)
    \/ \E c \in Callers, o \in Identities : ApiDeleteProfile(c, o)
    \/ \E c \in Callers, o \in Identities, r \in app_role : ApiInsertRole(c, o, r)
    \/ \E c \in Callers, o \in Identities, r \in app_role, r2 \in app_role :
          ApiUpdateRole(c, o, r, r2)
    \/ \E c \in Callers, o \in Identities, r \in app_role : ApiDeleteRole(c, o, r)

SpecRoles == Init /\ [][NextRoles]_vars

\* The application: registration, elevation, and the handlers of the
\* Dashboard, the account form and the Admin screen.
NextApp ==
    \/ \E u \in Identities, fault \in Faults : Register(u, PlainMeta, fault)
    \/ \E u \in Identities : GrantAdminOutOfBand(u)
    \/ \E u \in Identities : DashboardOpen(u)
    \/ \E formData \in FormDatas : FormSubmit(formData)
    \/ \E a \in Identities : AdminOpen(a)
    \/ \E id \in 1..MaxAccounts, b \in Amounts : AdminEditBalance(id, b)
    \/ \E id \in 1..MaxAccounts : AdminToggleProfitTarget(id)
    \/ \E id \in 1..MaxAccounts : AdminToggleCommissionPaid(id)

SpecApp == Init /\ [][NextApp]_vars

\* The store restricted to admin_settings: who exists, who is an
\* administrator, and every request on admin_settings.
SettingsIds == 1..(MaxSettings + 1)

NextSettings ==
    \/ \E u \in Identities, fault \in Faults : Register(u, PlainMeta, fault)
    \/ \E u \in Identities : GrantAdminOutOfBand(u)
    \/ \E c \in Callers : ApiSelectSettings(c)
    \/ \E c \in Callers, form \in SettingsForms : ApiInsertSettings(c, form)
    \/ \E c \in Callers, id \in SettingsIds, form \in SettingsForms : ApiUpdateSettings(c, id, form)
    \/ \E c \in Callers, id \in SettingsIds : ApiDeleteSettings(c, id)
    \/ \E c \in Callers, id \in SettingsIds \cup {NoId}, form \in SettingsForms :
          ApiUpsertSettings(c, id, form)

SpecSettings == Init /\ [][NextSettings]_vars

\* The settings card of the Admin screen: registration, elevation, opening
\* the screen (with and without a failed fetch) and saving the form.
NextSettingsApp ==
    \/ \E u \in Identities, fault \in Faults : Register(u, PlainMeta, fault)
    \/ \E u \in Identities : GrantAdminOutOfBand(u)
    \/ \E u \in Identities : DashboardOpen(u)
    \/ \E a \in Identities : AdminOpen(a)
    \/ \E a \in Identities, at \in FetchTables : AdminOpenFetchError(a, at)
    \/ \E form \in SettingsForms : updateSettings(form)

SpecSettingsApp == Init /\ [][NextSettingsApp]_vars

\* The store restricted to profiles as read and updated: registration with
\* any metadata, elevation, and the selects and updates on profiles.
NextProfiles ==
    \/ \E u \in Identities, meta \in Metas, fault \in Faults : Register(u, meta, fault)
    \/ \E u \in Identities : GrantAdminOutOfBand(u)
    \/ \E c \in Callers, o \in Callers : ApiSelectProfiles(c, o)
    \/ \E c \in Callers, o \in Identities, f \in ProfileFields :
          \E v \in ProfileValues(f) : ApiUpdateProfile(c, o, f, v)

SpecProfiles == Init /\ [][NextProfiles]_vars

\* The policy layer alone: who exists and which roles they hold (every way
\* user_roles changes), and the layer's decision for every table, command,
\* caller and row owner; has_role as a call of its own.
NextPolicies ==
    \/ \E u \in Identities, fault \in Faults : Register(u, PlainMeta, fault)
    \/ \E u \in Identities : GrantAdminOutOfBand(u)
    \/ \E c \in Callers, o \in Identities, r \in app_role : ApiInsertRole(c, o, r)
    \/ \E c \in Callers, o \in Identities, r \in app_role : ApiDeleteRole(c, o, r)
    \/ \E t \in Tables, cmd \in Commands, c \in Callers, o \in Identities :
          PolicyCheck(t, cmd, c, o)
    \/ \E c \in Callers, u \in Identities, r \in app_role : HasRoleCall(c, u, r)

SpecPolicies == Init /\ [][NextPolicies]_vars

\* Two administrators' screens racing on the accounts: registration,
\* elevation, a user's insert of an own account as the form sends it, and the
\* updates of Admin screens sent, applied by the store and returned as
\* separate steps.
NextRace ==
    \/ \E u \in Identities : Register(u, PlainMeta, "none")
    \/ \E u \in Identities : GrantAdminOutOfBand(u)
    \/ \E c \in Identities, d \in 1..MaxAmount : ApiInsertAccount(c, c, d, d, FALSE, FALSE)
    \/ \E a \in Identities, id \in 1..MaxAccounts, f \in AccountFields :
          \E v \in FieldValues(f) : OtherAdminSendUpdate(a, id, f, v)
    \/ \E i \in 1..MaxInflight : StoreApplyUpdate(i)
    \/ \E i \in 1..MaxInflight : ReceiveUpdate(i)

SpecRace == Init /\ [][NextRace]_vars

\* One Admin screen with its handlers taken await by await.
NextScreen ==
    \/ \E u \in Identities : Register(u, PlainMeta, "none")
    \/ \E u \in Identities : GrantAdminOutOfBand(u)
    \/ \E c \in Identities, d \in 1..MaxAmount : ApiInsertAccount(c, c, d, d, FALSE, FALSE)
    \/ \E a \in Identities : AdminOpenIdle(a)
    \/ \E id \in 1..MaxAccounts, b \in Amounts : AsyncEditBalance(id, b)
    \/ \E id \in 1..MaxAccounts : AsyncToggleProfitTarget(id)
    \/ \E id \in 1..MaxAccounts : AsyncToggleCommissionPaid(id)
    \/ \E i \in 1..(MaxInflight + MaxUsers) : StoreApplyUpdate(i)
    \/ \E i \in 1..(MaxInflight + MaxUsers) : ReceiveUpdate(i)
    \/ \E i \in 1..(MaxInflight + MaxUsers) : StoreAnswerSelect(i)
    \/ \E i \in 1..(MaxInflight + MaxUsers) : FetchDataStep(i)

SpecScreen == Init /\ [][NextScreen]_vars

\* The Auth screen, the navigation bar and the Dashboard with its account
\* form: identities come into being by the sign-up form only.
NextAuth ==
    \/ \E loginForm \in LoginForms, reply \in LoginReplies : handleLogin(loginForm, reply)
    \/ \E signupForm \in SignupForms, hasAccount \in HasAccounts,
          link \in LinkOutcomes, reply \in SignupReplies :
          handleSignup(signupForm, hasAccount, link, reply)
    \/ \E reply \in SignOutReplies : handleSignOut(reply)
    \/ ToggleTheme
    \/ \E u \in Identities : DashboardOpen(u)
    \/ \E formData \in FormDatas : FormSubmit(formData)

SpecAuth == Init /\ [][NextAuth]_vars

\* The screens with their requests failing and succeeding: registration,
\* elevation, the Dashboard and its account form, the Admin screen, its
\* balance input and its settings form.
NextFetchErrors ==
    \/ \E u \in Identities : Register(u, PlainMeta, "none")
    \/ \E u \in Identities : GrantAdminOutOfBand(u)
    \/ \E u \in Identities : DashboardOpen(u)
    \/ \E u \in Identities, at \in FetchTables : DashboardOpenFetchError(u, at)
    \/ \E formData \in FormDatas : FormSubmit(formData)
    \/ \E a \in Identities : AdminOpen(a)
    \/ \E a \in Identities, at \in FetchTables : AdminOpenFetchError(a, at)
    \/ \E id \in 1..MaxAccounts, b \in Amounts : AdminEditBalance(id, b)
    \/ \E form \in SettingsForms : updateSettings(form)

SpecFetchErrors == Init /\ [][NextFetchErrors]_vars

\* ================================================================== claims
\* holding the admin role, read off the table itself
HoldsAdmin(u) == [user_id |-> u, role |-> "admin"] \in user_roles

RowsOf(u) == { r \in mt5_accounts : r.user_id = u }

\* C1: a non-administrator's select on mt5_accounts returns only rows the
\* caller owns, never another identity's; an administrator's select returns
\* every row the request names.
C1_ReadOnlyOwnRows ==
    (resp.op = "select" /\ resp.table = "mt5_accounts") =>
        IF HoldsAdmin(resp.caller)
        THEN resp.rows = (IF resp.arg = Anon THEN mt5_accounts ELSE RowsOf(resp.arg))
        ELSE \A r \in resp.rows : r.user_id = resp.caller

\* a non-administrator has read all of mt5_accounts while it held a row of
\* another identity
C1_Witness ==
    /\ resp.op = "select" /\ resp.table = "mt5_accounts" /\ resp.arg = Anon
    /\ resp.caller \in users /\ ~HoldsAdmin(resp.caller)
    /\ \E r \in mt5_accounts : r.user_id # resp.caller

\* C2: after a non-administrator's form submit has inserted a Trading
\* Account, the Dashboard state fetched next for that user contains a row of
\* that user (and so can show its badge once an administrator sets
\* profit_target_reached).
C2_OwnerSeesInsertedRow ==
    (dash.toast = "MT5 Account Added" /\ ~HoldsAdmin(dash.user)) =>
        \E r \in dash.mt5Accounts : r.user_id = dash.user

\* C3: an update of current_balance, profit_target_reached or
\* commission_paid sent by a non-administrator (the owner included) changes
\* no row of mt5_accounts, and whenever one of these fields of a row changes
\* the step is an administrator's update.
C3_OnlyAdminUpdates ==
    [][ /\ (resp'.op = "update" /\ resp'.table = "mt5_accounts" /\ ~HoldsAdmin(resp'.caller))
            => (mt5_accounts' = mt5_accounts /\ resp'.n = 0)
        /\ \A r \in mt5_accounts, q \in mt5_accounts' :
              (q.id = r.id /\ \E f \in AccountFields : q[f] # r[f])
                 => (resp'.op = "update" /\ resp'.table = "mt5_accounts"
                       /\ HoldsAdmin(resp'.caller)) ]_vars

\* the owner of an existing row, not an administrator, has sent an update of it
C3_Witness ==
    /\ resp.op = "update" /\ resp.table = "mt5_accounts"
    /\ resp.caller \in users /\ ~HoldsAdmin(resp.caller)
    /\ \E r \in mt5_accounts : r.id = resp.arg /\ r.user_id = resp.caller
    /\ resp.n = 0

\* C4: an insert into mt5_accounts by a non-administrator is refused and adds
\* no row unless the row's user_id is the caller; when it is the caller the
\* insert is accepted and adds exactly that row.
C4_InsertOwnRowsOnly ==
    [][ (resp'.op = "insert" /\ resp'.table = "mt5_accounts" /\ ~HoldsAdmin(resp'.caller))
          => IF resp'.arg = resp'.caller
             THEN /\ resp'.status = Ok
                  /\ \E r \in mt5_accounts' :
                        /\ r \notin mt5_accounts
                        /\ r.user_id = resp'.caller
                        /\ mt5_accounts' = mt5_accounts \cup {r}
             ELSE /\ resp'.status = RlsError
                  /\ mt5_accounts' = mt5_accounts ]_vars

\* a signed-in non-administrator was refused the insert of a row owned by
\* another existing identity
C4_Witness ==
    /\ resp.op = "insert" /\ resp.table = "mt5_accounts"
    /\ resp.caller \in users /\ ~HoldsAdmin(resp.caller)
    /\ resp.arg \in users /\ resp.arg # resp.caller
    /\ resp.status = RlsError

\* C5: no request a non-administrator sends to the policy layer adds,
\* changes or removes a row of user_roles, and the set of administrators
\* grows only by an out-of-band grant or an administrator's request.
Admins == { u \in Identities : HoldsAdmin(u) }

C5_RolesOnlyByAdmins ==
    [][ /\ (resp'.op \in {"select", "insert", "update", "delete"} /\ ~HoldsAdmin(resp'.caller))
            => user_roles' = user_roles
        /\ ~(Admins' \subseteq Admins)
            => (resp'.op = "grant"
                  \/ (resp'.table = "user_roles" /\ HoldsAdmin(resp'.caller))) ]_vars

\* a signed-in non-administrator has tried to insert a role for itself
C5_Witness ==
    /\ resp.op = "insert" /\ resp.table = "user_roles"
    /\ resp.caller \in users /\ ~HoldsAdmin(resp.caller)
    /\ resp.arg = resp.caller
    /\ resp.status = RlsError

ProfilesOf(u) == { p \in profiles : p.user_id = u }
RolesOf(u) == { r \in user_roles : r.user_id = u }

\* C6: in the state right after an identity's registration succeeds there is
\* exactly one profiles row and exactly one user_roles row for it, and that
\* role is user.
C6_RegistrationCreatesRows ==
    [][ \A u \in Identities :
          (u \notin users /\ u \in users')
             => /\ Cardinality({ p \in profiles' : p.user_id = u }) = 1
                /\ { r \in user_roles' : r.user_id = u } = {[user_id |-> u, role |-> "user"]} ]_vars

\* a registration has just succeeded
C6_Witness ==
    /\ resp.op = "signup" /\ resp.status = Ok
    /\ resp.arg \in users
    /\ ProfilesOf(resp.arg) # {}

\* C7: in every reachable state every existing identity has exactly one
\* profile and at least one role.
C7_ProfileAndRoleForEveryIdentity ==
    \A u \in users : Cardinality(ProfilesOf(u)) = 1 /\ RolesOf(u) # {}

\* C8: a registration whose trigger raises (either insert failing) leaves
\* auth.users, profiles and user_roles as they were, and no step adds an
\* identity that lacks a profile or lacks a role.
C8_RegistrationAtomic ==
    [][ /\ (resp'.op = "signup" /\ resp'.status # Ok)
            => (users' = users /\ profiles' = profiles /\ user_roles' = user_roles)
        /\ \A u \in users' \ users :
              /\ \E p \in profiles' : p.user_id = u
              /\ \E r \in user_roles' : r.user_id = u ]_vars

\* a registration has failed in the trigger and left no identity behind
C8_Witness ==
    /\ resp.op = "signup" /\ resp.status = TxError
    /\ resp.arg \notin users
    /\ ProfilesOf(resp.arg) = {} /\ RolesOf(resp.arg) = {}

\* C9: whenever the policy layer denies a select, insert or update, the
\* caller receives an authorization error (not an empty result or a zero-row
\* success).
C9_DenialIsAnError ==
    (resp.denied /\ resp.op \in {"select", "insert", "update"}) => resp.status = RlsError

\* C10: once profit_target_reached is true on an account it is true in every
\* later state.
C10_ProfitTargetLatch ==
    [][ \A r \in mt5_accounts : r.profit_target_reached
          => \E q \in mt5_accounts' : q.id = r.id /\ q.profit_target_reached ]_vars

\* C10 as amended: profit_target_reached goes from true to false only in an
\* administrator's update that names profit_target_reached and changes
\* nothing else of that row; no other step resets it or removes the row.
C10_ResetOnlyByAdminUncheck ==
    [][ \A r \in mt5_accounts : r.profit_target_reached
          => \/ \E q \in mt5_accounts' : q.id = r.id /\ q.profit_target_reached
             \/ /\ resp'.op = "update" /\ resp'.table = "mt5_accounts"
                /\ resp'.field = "profit_target_reached" /\ resp'.arg = r.id
                /\ HoldsAdmin(resp'.caller)
                /\ [r EXCEPT !.profit_target_reached = FALSE] \in mt5_accounts' ]_vars

\* an administrator has edited another field of an account whose
\* profit_target_reached is set, and it is still set
C10_Witness ==
    /\ resp.op = "update" /\ resp.table = "mt5_accounts" /\ resp.n = 1
    /\ resp.field \in {"commission_paid", "current_balance"}
    /\ \E r \in mt5_accounts : r.id = resp.arg /\ r.profit_target_reached

\* C11: in every reachable state every row of mt5_accounts with
\* commission_paid true has profit_target_reached true.
C11_PaidImpliesTargetReached ==
    \A r \in mt5_accounts : r.commission_paid => r.profit_target_reached

\* C12: a select on admin_settings returns every row to every caller
\* (administrator, non-administrator, unauthenticated), and an insert, update,
\* delete or upsert sent by a non-administrator leaves admin_settings as it
\* was: the insert and the upsert are refused, the update and the delete
\* change no row.
C12_SettingsReadableAdminWritable ==
    [][ /\ (resp'.op = "select" /\ resp'.table = "admin_settings")
            => resp'.rows = admin_settings
        /\ (resp'.table = "admin_settings" /\ ~HoldsAdmin(resp'.caller)
              /\ resp'.op \in {"insert", "update", "delete", "upsert"})
            => /\ admin_settings' = admin_settings
               /\ resp'.n = 0
               /\ resp'.op \in {"insert", "upsert"} => resp'.status = RlsError ]_vars

\* a signed-in non-administrator has sent an update of an existing settings row
C12_Witness ==
    /\ resp.op = "update" /\ resp.table = "admin_settings"
    /\ resp.caller \in users /\ ~HoldsAdmin(resp.caller)
    /\ \E r \in admin_settings : r.id = resp.arg
    /\ resp.n = 0

\* C13: in every reachable state admin_settings holds exactly one row (the
\* save of the Admin screen updates it and never adds a second one).
C13_SettingsSingleton ==
    Cardinality(admin_settings) = 1

\* C14: a submit of the account form by the signed-in user u with a valid
\* deposit text spelling d adds exactly one row to mt5_accounts, with
\* user_id = u, initial_deposit = d, current_balance = d,
\* profit_target_reached = false and commission_paid = false.
C14_FormCreatesActiveAccount ==
    [][ \A formData \in FormDatas :
          (FormSubmit(formData) /\ FormValidation(formData) = "none")
             => \E r \in mt5_accounts' :
                   /\ mt5_accounts' = mt5_accounts \cup {r}
                   /\ r \notin mt5_accounts
                   /\ r.user_id = dash.user
                   /\ r.user_id = resp'.caller
                   /\ ToString(r.initial_deposit) = formData.initialDeposit
                   /\ r.current_balance = r.initial_deposit
                   /\ ~r.profit_target_reached
                   /\ ~r.commission_paid ]_vars

\* a form submit has just added the account of a user who is no administrator
C14_Witness ==
    /\ dash.toast = "MT5 Account Added"
    /\ resp.op = "insert" /\ resp.status = Ok /\ ~HoldsAdmin(resp.caller)
    /\ \E r \in mt5_accounts : r.user_id = dash.user /\ r.current_balance = r.initial_deposit

\* C15: a select on profiles by a caller who is no administrator returns
\* only the caller's own profile, an update of a profile sent by anyone but
\* its owner or an administrator changes no row, and whenever a profile
\* changes the step is an update by its owner or by an administrator; the
\* owner and an administrator do get the profile they name.
C15_ProfileOwnerOrAdmin ==
    [][ /\ (resp'.op = "select" /\ resp'.table = "profiles")
            => IF HoldsAdmin(resp'.caller)
               THEN resp'.rows = (IF resp'.arg = Anon THEN profiles ELSE ProfilesOf(resp'.arg))
               ELSE resp'.rows = (IF resp'.arg \in {Anon, resp'.caller}
                                  THEN ProfilesOf(resp'.caller) ELSE {})
        /\ (resp'.op = "update" /\ resp'.table = "profiles"
              /\ resp'.arg # resp'.caller /\ ~HoldsAdmin(resp'.caller))
            => (profiles' = profiles /\ resp'.n = 0)
        /\ \A p \in profiles :
              p \notin profiles'
                 => /\ resp'.op = "update" /\ resp'.table = "profiles"
                    /\ resp'.arg = p.user_id
                    /\ (resp'.caller = p.user_id \/ HoldsAdmin(resp'.caller)) ]_vars

\* a signed-in non-administrator has sent an update of another identity's
\* existing profile
C15_Witness ==
    /\ resp.op = "update" /\ resp.table = "profiles"
    /\ resp.caller \in users /\ ~HoldsAdmin(resp.caller)
    /\ resp.arg # resp.caller /\ ProfilesOf(resp.arg) # {}
    /\ resp.n = 0

\* C16: for every table, command, caller and row the policy layer allows
\* the command exactly when the caller satisfies one of the policies the
\* migration declares for that command on that table: on profiles the owner
\* or an administrator for select, insert and update and an administrator
\* for delete; on mt5_accounts the owner or an administrator for insert and
\* an administrator for the rest; on user_roles an administrator; on
\* admin_settings anyone for select and an administrator for the rest.
\* Otherwise it denies; an insert into user_roles is refused on the same terms.
IsOwner(caller, owner) == caller # Anon /\ caller = owner

SatisfiesAPolicy(table, cmd, caller, owner) ==
    CASE table = "profiles" ->
            \/ cmd \in {"SELECT", "INSERT", "UPDATE"} /\ IsOwner(caller, owner)
            \/ HoldsAdmin(caller)
      [] table = "mt5_accounts" ->
            \/ cmd = "INSERT" /\ IsOwner(caller, owner)
            \/ HoldsAdmin(caller)
      [] table = "user_roles" -> HoldsAdmin(caller)
      [] table = "admin_settings" -> cmd = "SELECT" \/ HoldsAdmin(caller)

C16_AllowedIffSomePolicy ==
    /\ resp.op = "check" =>
          /\ (resp.status = Ok) <=> SatisfiesAPolicy(resp.table, resp.field, resp.caller, resp.arg)
          /\ (resp.status = RlsError) <=> ~SatisfiesAPolicy(resp.table, resp.field, resp.caller, resp.arg)
          /\ resp.denied <=> (resp.status = RlsError)
    /\ (resp.op = "insert" /\ resp.table = "user_roles") =>
          (resp.status = RlsError) <=> ~SatisfiesAPolicy("user_roles", "INSERT", resp.caller, resp.arg)

\* the layer has allowed an owner's insert on mt5_accounts that no
\* administrator policy covers, while that owner's select is one it denies
C16_Witness ==
    /\ resp.op = "check" /\ resp.table = "mt5_accounts" /\ resp.field = "INSERT"
    /\ resp.caller \in users /\ ~HoldsAdmin(resp.caller) /\ resp.arg = resp.caller
    /\ resp.status = Ok
    /\ ~SatisfiesAPolicy("mt5_accounts", "SELECT", resp.caller, resp.arg)

\* C17: a call of has_role(identity, role) returns true exactly when the
\* row (identity, role) is in user_roles, for every identity and each role
\* of {admin, user}, and the call changes no table.
C17_HasRoleIsMembership ==
    [][ resp'.op = "rpc"
          => /\ (resp'.n = 1) <=> ([user_id |-> resp'.arg, role |-> resp'.field] \in user_roles)
             /\ resp'.n \in {0, 1}
             /\ store' = store ]_vars

\* has_role has returned false for an identity that holds the other role only
C17_Witness ==
    /\ resp.op = "rpc" /\ resp.n = 0
    /\ RolesOf(resp.arg) # {}
    /\ \E u \in users : u # resp.arg /\ [user_id |-> u, role |-> resp.field] \in user_roles

\* C18: whenever the store applies an administrator's update of a field of
\* an existing account, whatever other updates are in flight or were applied
\* before, the update changes that row (one row, no conflict), the field
\* then holds that request's value, and the response every update returns
\* is a success: of two administrators' concurrent updates of the same field
\* the one applied last decides the stored value.
C18_LastWriteWins ==
    [][ /\ \A i \in DOMAIN net :
              ( /\ net[i].call = "update" /\ net[i].state = "sent"
                /\ Len(net') = Len(net)
                /\ net' = [net EXCEPT ![i].state = "answered", ![i].n = net'[i].n]
                /\ HoldsAdmin(net[i].caller) )
                 => \A r \in mt5_accounts :
                       r.id = net[i].id
                          => /\ net'[i].n = 1
                             /\ [r EXCEPT ![net[i].field] = net[i].value] \in mt5_accounts'
                             /\ \A q \in mt5_accounts' :
                                   q.id = r.id => q[net[i].field] = net[i].value
        /\ (resp' # resp /\ resp'.op = "update") => resp'.status = Ok ]_vars

\* two administrators' updates of the same field of the same account, with
\* different values, were in flight together and the store has applied both
C18_Witness ==
    \E i \in DOMAIN net, j \in DOMAIN net :
        /\ net[i].caller # net[j].caller
        /\ HoldsAdmin(net[i].caller) /\ HoldsAdmin(net[j].caller)
        /\ net[i].id = net[j].id /\ net[i].field = net[j].field
        /\ net[i].value # net[j].value
        /\ net[i].state = "answered" /\ net[j].state = "answered"
        /\ net[i].n = 1 /\ net[j].n = 1
        /\ \E r \in mt5_accounts : r.id = net[j].id /\ r[net[j].field] = net[j].value

\* C19: at most one request of an Admin screen is in flight at any time.
C19_OneRequestInFlight ==
    Cardinality(InFlightFromScreen) <= 1

\* C20: no step of the application (registration, form submit, the Admin
\* screen's updates, the fetches) removes a row of mt5_accounts: the set of
\* account ids only grows.
C20_AccountsNeverRemoved ==
    [][ { r.id : r \in mt5_accounts } \subseteq { q.id : q \in mt5_accounts' } ]_vars

\* the Admin screen has updated an account and shows it after the refetch
C20_Witness ==
    /\ adm.toast = "Account updated"
    /\ resp.op = "update" /\ resp.n = 1
    /\ \E account \in AdminCards : account.id = resp.arg /\ account \in mt5_accounts

\* C25: a registration that the store does not fail succeeds whatever keys
\* its metadata has, and leaves exactly one profile of the new identity:
\* full_name and telegram_handle are the metadata's values where present and
\* the empty string where absent.
C25_TriggerDefaultsMissingMetadata ==
    [][ \A u \in Identities, meta \in Metas :
          Register(u, meta, "none")
             => /\ resp'.status = Ok
                /\ u \in users'
                /\ { p \in profiles' : p.user_id = u }
                      = { [user_id |-> u,
                           full_name |-> IF meta.full_name = Null THEN "" ELSE meta.full_name,
                           telegram_handle |-> IF meta.telegram_handle = Null THEN ""
                                               ELSE meta.telegram_handle] }
                /\ profiles \subseteq profiles' ]_vars

\* an identity registered without a name but with a handle, and has its profile
C25_Witness ==
    /\ resp.op = "signup" /\ resp.status = Ok
    /\ \E p \in profiles :
          p.user_id = resp.arg /\ p.full_name = "" /\ p.telegram_handle = "@jane"

\* what a read of Platform Settings returns to a caller: select('*'), and
\* the Dashboard's select('usdt_wallet_address').single()
ReadSettings(caller) ==
    Visible("admin_settings", admin_settings, caller)

ReadWallet(caller) ==
    { [usdt_wallet_address |-> r.usdt_wallet_address] : r \in Single(ReadSettings(caller)) }

\* C24: a step that does not write Platform Settings (a registration, a role
\* change, a read, a denied write) leaves what a read returns to every
\* caller unchanged, so two reads with no write between them agree; and a
\* read that directly follows a read returns the same rows, whoever the
\* two callers are.
C24_SettingsReadIdempotent ==
    [][ admin_settings' = admin_settings
           => /\ \A c \in Callers :
                    /\ ReadSettings(c)' = ReadSettings(c)
                    /\ ReadWallet(c)' = ReadWallet(c)
              /\ ( /\ resp.op = "select" /\ resp.table = "admin_settings"
                   /\ resp'.op = "select" /\ resp'.table = "admin_settings" )
                    => resp'.rows = resp.rows ]_vars

\* a read by an identity that was made an administrator, of a table that was
\* written before: it returns the stored rows
C24_Witness ==
    /\ resp.op = "select" /\ resp.table = "admin_settings"
    /\ HoldsAdmin(resp.caller)
    /\ \E u \in users : ~HoldsAdmin(u)
    /\ admin_settings # {DefaultSettings}
    /\ resp.rows = admin_settings /\ resp.rows # {}

\* C26: on every account card of the Dashboard and of the Admin screen the
\* badge is determined by the two flags: none when profit_target_reached is
\* false, "Commission Due" exactly when it is true and commission_paid is
\* false, "Commission Paid" exactly when both are true; and the Admin
\* screen's Commission Due counter is the number of its cards whose badge
\* is "Commission Due".
C26_BadgeFollowsFlags ==
    /\ \A a \in dash.mt5Accounts \cup AdminCards :
          /\ (Badge(a) = "none") <=> ~a.profit_target_reached
          /\ (Badge(a) = "Commission Due")
                <=> (a.profit_target_reached /\ ~a.commission_paid)
          /\ (Badge(a) = "Commission Paid")
                <=> (a.profit_target_reached /\ a.commission_paid)
    /\ accountsNeedingCommission
          = Cardinality({ a \in AdminCards : a.profit_target_reached /\ ~a.commission_paid })
    /\ accountsNeedingCommission
          = Cardinality({ a \in AdminCards : Badge(a) = "Commission Due" })

\* the Admin screen shows a card with "Commission Due" and counts it, and
\* the Dashboard shows a card with commission_paid set and no badge
C26_Witness ==
    /\ accountsNeedingCommission = 1
    /\ \E a \in AdminCards : Badge(a) = "Commission Due"
    /\ \E a \in dash.mt5Accounts : a.commission_paid /\ Badge(a) = "none"

\* C27: a step requested by a caller who is not an administrator leaves no
\* new or changed account row with profit_target_reached or commission_paid
\* true, or with current_balance other than initial_deposit: such values are
\* set only by an administrator's operation.
C27_FlagsOnlyByAdministrator ==
    [][ \A q \in mt5_accounts' :
          (q \notin mt5_accounts /\ ~HoldsAdmin(resp'.caller))
             => /\ ~q.profit_target_reached
                /\ ~q.commission_paid
                /\ q.current_balance = q.initial_deposit ]_vars

C28_AdminScreenConverges ==
    ( /\ adm.user # Anon /\ ~adm.loading
      /\ net = <<>>
      /\ resp.op = "update" /\ resp.caller = adm.user /\ resp.status = Ok )
       => AdminCards = mt5_accounts

\* C21: a handler whose form fails validation sends no request.  A submit
\* of the account form with an empty accountId, password, server or deposit,
\* or with a deposit that is not a number above 0, leaves the store and the
\* last response as they were; so does handleLogin with an empty email or
\* password; and a handleSignup that issued a request was given a form with
\* every field present, matching passwords, a password of at least 6
\* characters and an option chosen.
C21_ValidationBeforeAnyRequest ==
    [][ /\ \A formData \in FormDatas :
              ( /\ ~( /\ formData.accountId # "" /\ formData.password # ""
                      /\ formData.server # "" /\ formData.initialDeposit # ""
                      /\ \E n \in Amounts : n > 0 /\ ToString(n) = formData.initialDeposit )
                /\ FormSubmit(formData) )
                 => /\ UNCHANGED <<store, resp>>
                    /\ dash'.toast \in {"Missing information", "Invalid deposit amount"}
        /\ \A loginForm \in LoginForms, reply \in LoginReplies :
              ( /\ (loginForm.email = "" \/ loginForm.password = "")
                /\ handleLogin(loginForm, reply) )
                 => /\ auth'.calls = <<>>
                    /\ UNCHANGED <<store, resp, localStorage>>
        /\ (auth'.handler = "handleSignup" /\ auth'.calls # <<>>)
              => \A signupForm \in SignupForms, hasAccount \in HasAccounts,
                    link \in LinkOutcomes, reply \in SignupReplies :
                    ( /\ ~( /\ signupForm.fullName # "" /\ signupForm.email # ""
                            /\ signupForm.telegramHandle # "" /\ signupForm.password # ""
                            /\ signupForm.password = signupForm.confirmPassword
                            /\ Len(signupForm.password) >= 6
                            /\ hasAccount # "" ) )
                       => ~handleSignup(signupForm, hasAccount, link, reply)
        /\ (auth'.handler = "handleSignup" /\ auth'.calls = <<>> /\ auth' # auth)
              => UNCHANGED <<store, resp, localStorage>> ]_vars

\* the sign-up form was rejected for its short password while an identity
\* exists and a session is cached, and the account form for its deposit:
\* nothing was sent
C21_Witness ==
    /\ auth.handler = "handleSignup" /\ auth.toast = "Password too short"
    /\ auth.calls = <<>>
    /\ users # {} /\ SessionKey \in localStorage
    /\ dash.toast = "Invalid deposit amount"

\* the requests to the session provider
AuthRequests == {"signOut", "signInWithPassword", "signUp"}

\* C23: every request a handler sent to the session provider was issued
\* while local storage held no session artifact; handleLogin and
\* handleSignup issued a sign-out directly before their sign-in or sign-up;
\* and after handleSignOut, whatever its sign-out came back with, local
\* storage holds no session artifact.
C23_CacheClearedBeforeAuthRequest ==
    /\ \A i \in DOMAIN auth.calls :
          auth.calls[i].call \in AuthRequests => auth.calls[i].stored = {}
    /\ \A i \in DOMAIN auth.calls :
          auth.calls[i].call \in {"signInWithPassword", "signUp"}
             => /\ i > 1
                /\ auth.calls[i - 1].call = "signOut"
    /\ auth.handler \in {"handleLogin", "handleSignup"}
          => \A key \in auth.removed : key \notin localStorage \/ key = SessionKey
    /\ auth.handler = "handleSignOut"
          => /\ SessionArtifacts(localStorage) = {}
             /\ auth.calls # <<>>

\* a sign-out that came back with an error, on a browser that held a cached
\* session and a theme: both were removed before the request
C23_Witness ==
    /\ auth.handler = "handleSignOut"
    /\ resp.op = "signout" /\ resp.status = AuthError
    /\ SessionKey \in auth.removed /\ ThemeKey \in auth.removed
    /\ localStorage = {}

\* C29: a handleSignup run with "No, I need to create one" selected issues
\* no sign-up request and creates no identity, whether the partner link is
\* opened or the block that fetches and opens it throws.
C29_NoSignupWithoutTradingAccount ==
    [][ \A signupForm \in SignupForms, link \in LinkOutcomes, reply \in SignupReplies :
          handleSignup(signupForm, "no", link, reply)
             => /\ users' = users
                /\ profiles' = profiles
                /\ \A i \in DOMAIN auth'.calls : auth'.calls[i].call # "signUp" ]_vars

\* C22: after a handler's request has failed the screen shows a
\* notification and its loading flag is false: fetchData of the Dashboard
\* and of the Admin screen when one of its requests fails to complete, the
\* account form when its validation or its insert fails, and
\* updateMT5Account and updateSettings when the store returns an error.
C22_FailureIsNotified ==
    [][ /\ \A u \in Identities, at \in FetchTables :
              DashboardOpenFetchError(u, at)
                 => dash'.toast # "none" /\ ~dash'.loading
        /\ \A a \in Identities, at \in FetchTables :
              AdminOpenFetchError(a, at)
                 => adm'.toast # "none" /\ ~adm'.loading
        /\ \A formData \in FormDatas :
              (FormSubmit(formData) /\ mt5_accounts' = mt5_accounts)
                 => dash'.toast \notin {"none", "MT5 Account Added"} /\ ~dash'.loading
        /\ ( /\ resp' # resp /\ resp'.op \in {"update", "upsert"}
             /\ resp'.status # Ok )
              => adm'.toast = "Error" /\ ~adm'.loading ]_vars

====
